---------------------------- MODULE Spec2Model ----------------------------
(***************************************************************************)
(* CScript language support for VS Code (src/src/extension.ts): the        *)
(* diagnostic provider (CScriptDiagnosticProvider), the document event     *)
(* handlers registered by activate() and the diagnostic collection they    *)
(* write to.                                                               *)
(*                                                                         *)
(* A text is a sequence of one-character strings.  Columns and line        *)
(* numbers are 0-based as in the source; the helpers below take 0-based    *)
(* indices and translate to TLA+'s 1-based sequences.                      *)
(***************************************************************************)
EXTENDS Integers, Sequences, FiniteSets, TLC

VARIABLES
    open,          \* open[d]: document d is open in the editor
    text,          \* text[d]: what document.getText() returns for d
    sink,          \* diagnosticCollection: the entry of each document's uri
    timeout,       \* diagnosticProvider.timeout: the document captured by the callback of the timer the handle names, NoTimer when there is no handle or its timer has fired
    timers,        \* the host's armed timers, in the order they were armed: the document each callback captured
    enabled,       \* configuration cscript.diagnostics.enabled
    checkOnType,   \* configuration cscript.diagnostics.checkOnType
    strictRanges,  \* whether the host's Range constructor validates its arguments
    scanned,       \* history: the last updateDiagnostics(d) since d was last closed: its outcome and the text it read
    workspaceFolder, \* whether vscode.workspace.getWorkspaceFolder finds a folder for the documents
    outputFile,    \* outputFile[d]: the content of the .js file transpileFile writes for d
    transpile,     \* transpile[d]: the state of the child process exec started for d
    runTimer,      \* runTimer[d]: the timer armed by runFile(d) has not fired yet
    terminal       \* terminal[d]: the command the latest runFile(d) sent to a terminal

vars == <<open, text, sink, timeout, timers, enabled, checkOnType, strictRanges, scanned,
          workspaceFolder, outputFile, transpile, runTimer, terminal>>

\* the variables of the transpile and run commands
runVars == <<workspaceFolder, outputFile, transpile, runTimer, terminal>>

\* the variables of the documents and their diagnostics
documentVars == <<open, text, sink, timeout, timers, enabled, checkOnType, strictRanges, scanned>>

-----------------------------------------------------------------------------
(* Characters and character classes of the JavaScript regular expressions.  *)

Digits == {"0", "1", "2", "3", "4", "5", "6", "7", "8", "9"}

LowerLetters == {"a", "b", "c", "d", "e", "f", "g", "h", "i", "j", "k", "l", "m", "n", "o", "p", "q", "r", "s", "t", "u", "v", "w", "x", "y", "z"}

UpperLetters == {"A", "B", "C", "D", "E", "F", "G", "H", "I", "J", "K", "L", "M", "N", "O", "P", "Q", "R", "S", "T", "U", "V", "W", "X", "Y", "Z"}

\* \w
WordChars == Digits \cup LowerLetters \cup UpperLetters \cup {"_"}

\* \s, and what String.prototype.trim removes
SpaceChars == {" ", "\t", "\n", "\r", "\f"}

\* what . does not match
LineTerminators == {"\n", "\r"}

\* [+\-*/%=<>!&|^~]
OperatorChars == {"+", "-", "*", "/", "%", "=", "<", ">", "!", "&", "|", "^", "~"}

-----------------------------------------------------------------------------
(* String primitives.                                                       *)

Min(S) == CHOOSE x \in S : \A y \in S : x <= y

Max(S) == CHOOSE x \in S : \A y \in S : x >= y

\* s[i] for a 0-based index
At(s, i) == s[i + 1]

\* s.substring(i, j)
Sub(s, i, j) == SubSeq(s, i + 1, j)

\* pat occurs in s at 0-based index i
OccursAt(s, pat, i) == /\ i >= 0
                       /\ i + Len(pat) <= Len(s)
                       /\ \A k \in 1..Len(pat) : s[i + k] = pat[k]

\* s.indexOf(pat)
IndexOf(s, pat) ==
    LET hits == {i \in 0..Len(s) : OccursAt(s, pat, i)}
    IN IF hits = {} THEN -1 ELSE Min(hits)

\* s.lastIndexOf(pat)
LastIndexOf(s, pat) ==
    LET hits == {i \in 0..Len(s) : OccursAt(s, pat, i)}
    IN IF hits = {} THEN -1 ELSE Max(hits)

\* s.includes(pat)
Includes(s, pat) == IndexOf(s, pat) >= 0

\* the index of the first non-whitespace character, Len(s) when there is none
TrimStartIndex(s) ==
    Min({i \in 0..Len(s) : i = Len(s) \/ At(s, i) \notin SpaceChars})

\* one past the index of the last non-whitespace character, 0 when there is none
TrimEndIndex(s) ==
    Max({j \in 0..Len(s) : j = 0 \/ At(s, j - 1) \notin SpaceChars})

\* s.trim()
Trim(s) ==
    IF TrimStartIndex(s) >= TrimEndIndex(s) THEN <<>>
    ELSE Sub(s, TrimStartIndex(s), TrimEndIndex(s))

\* s.endsWith(pat)
EndsWith(s, pat) == OccursAt(s, pat, Len(s) - Len(pat))

\* s.startsWith(pat)
StartsWith(s, pat) == OccursAt(s, pat, 0)

\* (s.match(/c/g) || []).length for a single character c
CountChar(s, c) == Cardinality({i \in 1..Len(s) : s[i] = c})

\* s.search(/\S/)
SearchNonSpace(s) ==
    LET hits == {i \in 0..(Len(s) - 1) : At(s, i) \notin SpaceChars}
    IN IF hits = {} THEN -1 ELSE Min(hits)

\* the end of the run of characters of class cls that starts at i
RunEnd(s, i, cls) ==
    Min({j \in i..Len(s) : j = Len(s) \/ At(s, j) \notin cls})

\* \b at index i
WordBoundary(s, i) ==
    LET before == i > 0 /\ At(s, i - 1) \in WordChars
        after == i < Len(s) /\ At(s, i) \in WordChars
    IN before # after

\* text.split('\n')
RECURSIVE Split(_)
Split(s) ==
    LET nl == {i \in 1..Len(s) : s[i] = "\n"}
    IN IF nl = {} THEN <<s>>
       ELSE <<SubSeq(s, 1, Min(nl) - 1)>> \o Split(SubSeq(s, Min(nl) + 1, Len(s)))

\* lines.join('\n'), used to write documents line by line
RECURSIVE Join(_)
Join(ls) ==
    IF Len(ls) = 0 THEN <<>>
    ELSE IF Len(ls) = 1 THEN ls[1]
    ELSE ls[1] \o <<"\n">> \o Join(Tail(ls))

\* the concatenation of a sequence of sequences
RECURSIVE Flatten(_)
Flatten(ss) == IF Len(ss) = 0 THEN <<>> ELSE ss[1] \o Flatten(Tail(ss))

-----------------------------------------------------------------------------
(* Diagnostics.                                                             *)

\* new vscode.Diagnostic(new vscode.Range(sl, sc, el, ec), message, severity), source 'cscript'
Diagnostic(sl, sc, el, ec, msg, sev) ==
    [startLine |-> sl, startColumn |-> sc, endLine |-> el, endColumn |-> ec,
     message |-> msg, severity |-> sev, source |-> "cscript"]


\* a sequence of characters as a string, for template literals
RECURSIVE StrOf(_)
StrOf(s) == IF Len(s) = 0 THEN "" ELSE s[1] \o StrOf(Tail(s))

\* names.join(', ')
RECURSIVE JoinComma(_)
JoinComma(ss) ==
    IF Len(ss) = 0 THEN ""
    ELSE IF Len(ss) = 1 THEN StrOf(ss[1])
    ELSE StrOf(ss[1]) \o ", " \o JoinComma(Tail(ss))

KwMatch == <<"m", "a", "t", "c", "h">>

KwFrom == <<"f", "r", "o", "m">>

KwIn == <<"i", "n">>

KwSelect == <<"s", "e", "l", "e", "c", "t">>

KwOperator == <<"o", "p", "e", "r", "a", "t", "o", "r">>

KwFunction == <<"f", "u", "n", "c", "t", "i", "o", "n">>

KwStruct == <<"s", "t", "r", "u", "c", "t">>

KwWith == <<"w", "i", "t", "h">>

KwGet == <<"g", "e", "t">>

KwSet == <<"s", "e", "t">>

Arrow == <<"=", ">">>

PipeGt == <<"|", ">">>

DotDot == <<".", ".">>

\* the character ` (a TLA+ string cannot hold it)
Backtick == "<backtick>"

-----------------------------------------------------------------------------
(* checkPipelineOperators                                                   *)

\* the while loop over pipelineRegex.exec(line), /\|[^>]/g: the match indices,
\* the regex resuming at lastIndex = match.index + 2 after each match
RECURSIVE PipelineExec(_, _)
PipelineExec(line, lastIndex) ==
    LET hits == {i \in lastIndex..(Len(line) - 2) : At(line, i) = "|" /\ At(line, i + 1) # ">"}
    IN IF hits = {} THEN <<>>
       ELSE <<Min(hits)>> \o PipelineExec(line, Min(hits) + 2)

checkPipelineOperators(line, lineNumber) ==
    LET idx == PipelineExec(line, 0)
        invalid == [k \in 1..Len(idx) |->
                       Diagnostic(lineNumber, idx[k], lineNumber, idx[k] + 2,
                                  "Invalid pipeline operator. Use \"|>\" for pipeline operations.", "Error")]
        dangling == IF EndsWith(Trim(line), PipeGt)
                    THEN <<Diagnostic(lineNumber, LastIndexOf(line, PipeGt), lineNumber, Len(line),
                                      "Pipeline operator at end of line requires a continuation on the next line.", "Warning")>>
                    ELSE <<>>
    IN invalid \o dangling

-----------------------------------------------------------------------------
(* checkMatchExpressions                                                    *)

\* /\bmatch\s*\{/g .test(line)
MatchKeywordTest(line) ==
    \E i \in 0..Len(line) :
        /\ WordBoundary(line, i)
        /\ OccursAt(line, KwMatch, i)
        /\ LET j == RunEnd(line, i + 5, SpaceChars)
           IN j < Len(line) /\ At(line, j) = "{"

\* the for loop from lineNumber to the end of the document: foundClosing
RECURSIVE MatchClosureLoop(_, _, _, _)
MatchClosureLoop(lines, lineNumber, i, braceCount) ==
    IF i >= Len(lines) THEN FALSE
    ELSE LET count == braceCount + CountChar(lines[i + 1], "{") - CountChar(lines[i + 1], "}")
         IN IF count = 0 /\ i > lineNumber THEN TRUE
            ELSE MatchClosureLoop(lines, lineNumber, i + 1, count)

\* the ways /^\s*(.+)\s*=>\s*(.*)$/ matches s: <<a, b>> with s[0..a) the leading
\* \s*, s[a..b) the group (.+)
MatchArmWays(s) ==
    {w \in (0..Len(s)) \X (0..Len(s)) :
        /\ w[1] < w[2]
        /\ \A k \in 0..(w[1] - 1) : At(s, k) \in SpaceChars
        /\ \A k \in w[1]..(w[2] - 1) : At(s, k) \notin LineTerminators
        /\ \E c \in w[2]..Len(s) :
              /\ \A k \in w[2]..(c - 1) : At(s, k) \in SpaceChars
              /\ OccursAt(s, Arrow, c)
              /\ \E e \in (c + 2)..Len(s) :
                    /\ \A k \in (c + 2)..(e - 1) : At(s, k) \in SpaceChars
                    /\ \A k \in e..(Len(s) - 1) : At(s, k) \notin LineTerminators}

\* matchArm.test(s)
MatchArmTest(s) == MatchArmWays(s) # {}

\* s.match(matchArm)[1]: the match the backtracking engine finds first takes the
\* longest leading \s*, then the longest (.+)
MatchArmGroup(s) ==
    LET ways == MatchArmWays(s)
        a == Max({w[1] : w \in ways})
        b == Max({w[2] : w \in {v \in ways : v[1] = a}})
    IN Sub(s, a, b)

checkMatchExpressions(line, lineNumber, lines) ==
    LET unclosed == IF MatchKeywordTest(line) /\ ~MatchClosureLoop(lines, lineNumber, lineNumber, 0)
                    THEN <<Diagnostic(lineNumber, IndexOf(line, KwMatch), lineNumber, IndexOf(line, KwMatch) + 5,
                                      "Match expression is not properly closed with }", "Error")>>
                    ELSE <<>>
        arm == IF /\ MatchArmTest(Trim(line))
                  /\ MatchArmTest(line)
                  /\ Trim(MatchArmGroup(line)) = <<>>
               THEN <<Diagnostic(lineNumber, 0, lineNumber, Len(line),
                                 "Match arm must have a pattern before \"=>\"", "Error")>>
               ELSE <<>>
    IN unclosed \o arm

-----------------------------------------------------------------------------
(* checkLinqQueries                                                         *)

\* /^[a-zA-Z_$][a-zA-Z0-9_$]*$/ .test(w)
IsIdentifier(w) ==
    /\ Len(w) > 0
    /\ w[1] \in LowerLetters \cup UpperLetters \cup {"_", "$"}
    /\ \A k \in 2..Len(w) : w[k] \in WordChars \cup {"$"}

\* the indices at which /\bfrom\s+(\w+)\s+in\s+/ matches
FromStarts(line) ==
    {i \in 0..Len(line) :
        /\ WordBoundary(line, i)
        /\ OccursAt(line, KwFrom, i)
        /\ LET j == RunEnd(line, i + 4, SpaceChars)
               k == RunEnd(line, j, WordChars)
               m == RunEnd(line, k, SpaceChars)
           IN /\ j > i + 4
              /\ k > j
              /\ m > k
              /\ OccursAt(line, KwIn, m)
              /\ m + 2 < Len(line)
              /\ At(line, m + 2) \in SpaceChars}

\* line.match(fromRegex)[1]: the group (\w+) of the leftmost match
FromGroup(line) ==
    LET j == RunEnd(line, Min(FromStarts(line)) + 4, SpaceChars)
    IN Sub(line, j, RunEnd(line, j, WordChars))

\* /\bword\b/ .test(line)
WholeWordTest(line, word) ==
    \E i \in 0..Len(line) :
        /\ OccursAt(line, word, i)
        /\ WordBoundary(line, i)
        /\ WordBoundary(line, i + Len(word))

checkLinqQueries(line, lineNumber) ==
    LET naming == IF FromStarts(line) # {} /\ ~IsIdentifier(FromGroup(line))
                  THEN <<Diagnostic(lineNumber, IndexOf(line, FromGroup(line)), lineNumber,
                                    IndexOf(line, FromGroup(line)) + Len(FromGroup(line)),
                                    "Invalid variable name in LINQ query. Must be a valid identifier.", "Error")>>
                  ELSE <<>>
        incomplete == IF WholeWordTest(line, KwFrom) /\ ~WholeWordTest(line, KwSelect)
                      THEN <<Diagnostic(lineNumber, IndexOf(line, KwFrom), lineNumber, IndexOf(line, KwFrom) + 4,
                                        "LINQ query should end with a select clause.", "Information")>>
                      ELSE <<>>
    IN naming \o incomplete

-----------------------------------------------------------------------------
(* checkOperatorOverloading                                                 *)

validOperators == <<
    <<"+">>, <<"-">>, <<"*">>, <<"/">>, <<"%">>, <<"=", "=">>, <<"!", "=">>, <<"<">>, <<">">>,
    <<"<", "=">>, <<">", "=">>, <<"&", "&">>, <<"|", "|">>, <<"&">>, <<"|">>, <<"^">>, <<"~">>,
    <<"<", "<">>, <<">", ">">>, <<"+", "=">>, <<"-", "=">>, <<"*", "=">>, <<"/", "=">>, <<"%", "=">> >>

\* the indices at which /\boperator\s+([+\-*/%=<>!&|^~]+)\s*\(/ matches
OperatorStarts(line) ==
    {i \in 0..Len(line) :
        /\ WordBoundary(line, i)
        /\ OccursAt(line, KwOperator, i)
        /\ LET j == RunEnd(line, i + 8, SpaceChars)
               k == RunEnd(line, j, OperatorChars)
               m == RunEnd(line, k, SpaceChars)
           IN /\ j > i + 8
              /\ k > j
              /\ m < Len(line)
              /\ At(line, m) = "("}

\* line.match(operatorRegex)[1]: the group of the leftmost match
OperatorGroup(line) ==
    LET j == RunEnd(line, Min(OperatorStarts(line)) + 8, SpaceChars)
    IN Sub(line, j, RunEnd(line, j, OperatorChars))

checkOperatorOverloading(line, lineNumber) ==
    IF OperatorStarts(line) # {} /\ ~(\E k \in 1..Len(validOperators) : validOperators[k] = OperatorGroup(line))
    THEN <<Diagnostic(lineNumber, IndexOf(line, OperatorGroup(line)), lineNumber,
                      IndexOf(line, OperatorGroup(line)) + Len(OperatorGroup(line)),
                      "Invalid operator \"" \o StrOf(OperatorGroup(line)) \o "\" for overloading. Valid operators: "
                          \o JoinComma(validOperators),
                      "Error")>>
    ELSE <<>>

-----------------------------------------------------------------------------
(* checkFunctionSyntax                                                      *)

\* the indices at which /\bfunction\s+(\w+)\s*\(/ matches
FunctionStarts(line) ==
    {i \in 0..Len(line) :
        /\ WordBoundary(line, i)
        /\ OccursAt(line, KwFunction, i)
        /\ LET j == RunEnd(line, i + 8, SpaceChars)
               k == RunEnd(line, j, WordChars)
               m == RunEnd(line, k, SpaceChars)
           IN /\ j > i + 8
              /\ k > j
              /\ m < Len(line)
              /\ At(line, m) = "("}

\* line.match(functionRegex)[1]: the group (\w+) of the leftmost match
FunctionGroup(line) ==
    LET j == RunEnd(line, Min(FunctionStarts(line)) + 8, SpaceChars)
    IN Sub(line, j, RunEnd(line, j, WordChars))

\* /=>\s*$/ .test(line)
ArrowAtEndTest(line) ==
    \E i \in 0..Len(line) :
        /\ OccursAt(line, Arrow, i)
        /\ \A k \in (i + 2)..(Len(line) - 1) : At(line, k) \in SpaceChars

checkFunctionSyntax(line, lineNumber) ==
    LET naming == IF FunctionStarts(line) # {} /\ ~IsIdentifier(FunctionGroup(line))
                  THEN <<Diagnostic(lineNumber, IndexOf(line, FunctionGroup(line)), lineNumber,
                                    IndexOf(line, FunctionGroup(line)) + Len(FunctionGroup(line)),
                                    "Invalid function name. Must be a valid identifier.", "Error")>>
                  ELSE <<>>
        arrow == IF ArrowAtEndTest(line)
                 THEN <<Diagnostic(lineNumber, LastIndexOf(line, Arrow), lineNumber, Len(line),
                                   "Arrow function body is missing.", "Warning")>>
                 ELSE <<>>
    IN naming \o arrow

-----------------------------------------------------------------------------
(* checkBracesAndIndentation                                                *)

\* line.match(/^\t+ +/) || line.match(/^ +\t/)
MixedIndentTest(line) ==
    \/ LET j == RunEnd(line, 0, {"\t"}) IN j > 0 /\ j < Len(line) /\ At(line, j) = " "
    \/ LET j == RunEnd(line, 0, {" "}) IN j > 0 /\ j < Len(line) /\ At(line, j) = "\t"

checkBracesAndIndentation(line, lineNumber) ==
    IF MixedIndentTest(line)
    THEN <<Diagnostic(lineNumber, 0, lineNumber, SearchNonSpace(line),
                      "Mixed tabs and spaces for indentation. Choose either tabs or spaces consistently.", "Warning")>>
    ELSE <<>>

-----------------------------------------------------------------------------
(* checkGeneralSyntax and the checks it calls                               *)

\* a scan for which a backslash is an ordinary character
RECURSIVE StringScanUnescaped(_, _, _, _, _)
StringScanUnescaped(line, i, inString, stringChar, escaped) ==
    IF i >= Len(line) THEN <<inString, stringChar>>
    ELSE IF ~inString /\ At(line, i) \in {"\"", "'", Backtick} THEN StringScanUnescaped(line, i + 1, TRUE, At(line, i), FALSE)
    ELSE IF inString /\ At(line, i) = stringChar THEN StringScanUnescaped(line, i + 1, FALSE, "", FALSE)
    ELSE StringScanUnescaped(line, i + 1, inString, stringChar, FALSE)

\* the character loop of checkUnclosedStrings from index i on: the final
\* <<inString, stringChar>>
RECURSIVE StringScan(_, _, _, _, _)
StringScan(line, i, inString, stringChar, escaped) ==
    IF i >= Len(line) THEN <<inString, stringChar>>
    ELSE IF escaped THEN StringScan(line, i + 1, inString, stringChar, FALSE)
    ELSE IF At(line, i) = "\\" THEN StringScan(line, i + 1, inString, stringChar, TRUE)
    ELSE IF ~inString /\ At(line, i) \in {"\"", "'", Backtick} THEN StringScan(line, i + 1, TRUE, At(line, i), FALSE)
    ELSE IF inString /\ At(line, i) = stringChar THEN StringScan(line, i + 1, FALSE, "", FALSE)
    ELSE StringScan(line, i + 1, inString, stringChar, FALSE)

checkUnclosedStrings(line, lineNumber) ==
    LET final == StringScan(line, 0, FALSE, "", FALSE)
    IN IF final[1]
       THEN <<Diagnostic(lineNumber, 0, lineNumber, Len(line),
                         "Unclosed " \o (IF final[2] = Backtick THEN "template literal" ELSE "string") \o ".", "Error")>>
       ELSE <<>>

\* the while loop over invalidIdentifier.exec(line), /\b\d+\w+\b/g: the matches
\* <<index, length>>, the regex resuming at lastIndex = index + length
RECURSIVE IdentifierExec(_, _)
IdentifierExec(line, lastIndex) ==
    LET hits == {i \in lastIndex..(Len(line) - 1) :
                    /\ WordBoundary(line, i)
                    /\ At(line, i) \in Digits
                    /\ RunEnd(line, i, WordChars) - i >= 2}
    IN IF hits = {} THEN <<>>
       ELSE LET i == Min(hits)
                e == RunEnd(line, i, WordChars)
            IN <<(<<i, e - i>>)>> \o IdentifierExec(line, e)

checkInvalidIdentifiers(line, lineNumber) ==
    LET ms == IdentifierExec(line, 0)
    IN [k \in 1..Len(ms) |->
           Diagnostic(lineNumber, ms[k][1], lineNumber, ms[k][1] + ms[k][2],
                      "Identifiers cannot start with a number.", "Error")]

checkSemicolonUsage(line, lineNumber) ==
    IF Includes(line, <<":">>) /\ EndsWith(Trim(line), <<";">>)
    THEN <<Diagnostic(lineNumber, LastIndexOf(line, <<";">>), lineNumber, Len(line),
                      "Semicolon not needed when using Python-style syntax with colons.", "Information")>>
    ELSE <<>>

\* the indices at which /\bstruct\s+(\w+)/ matches
StructStarts(line) ==
    {i \in 0..Len(line) :
        /\ WordBoundary(line, i)
        /\ OccursAt(line, KwStruct, i)
        /\ LET j == RunEnd(line, i + 6, SpaceChars)
           IN j > i + 6 /\ RunEnd(line, j, WordChars) > j}

\* line.match(structRegex)[1]: the group (\w+) of the leftmost match
StructGroup(line) ==
    LET j == RunEnd(line, Min(StructStarts(line)) + 6, SpaceChars)
    IN Sub(line, j, RunEnd(line, j, WordChars))

\* /^[A-Z][a-zA-Z0-9_]*$/ .test(w)
IsPascalCase(w) ==
    /\ Len(w) > 0
    /\ w[1] \in UpperLetters
    /\ \A k \in 2..Len(w) : w[k] \in WordChars

checkStructSyntax(line, lineNumber) ==
    IF StructStarts(line) # {} /\ ~IsPascalCase(StructGroup(line))
    THEN <<Diagnostic(lineNumber, IndexOf(line, StructGroup(line)), lineNumber,
                      IndexOf(line, StructGroup(line)) + Len(StructGroup(line)),
                      "Struct names should start with an uppercase letter and follow PascalCase convention.", "Warning")>>
    ELSE <<>>

\* get or set at index i
AccessorAt(line, i) == OccursAt(line, KwGet, i) \/ OccursAt(line, KwSet, i)

\* /\{\s*(get|set)[;\s]*(get|set)?[;\s]*\}/ .test(line)
AutoPropertyTest(line) ==
    \E i \in 0..(Len(line) - 1) :
        /\ At(line, i) = "{"
        /\ LET j == RunEnd(line, i + 1, SpaceChars)
           IN /\ AccessorAt(line, j)
              /\ LET p == RunEnd(line, j + 3, SpaceChars \cup {";"})
                 IN \/ p < Len(line) /\ At(line, p) = "}"
                    \/ /\ AccessorAt(line, p)
                       /\ LET q == RunEnd(line, p + 3, SpaceChars \cup {";"})
                          IN q < Len(line) /\ At(line, q) = "}"

\* the places /\{\s*([^}]+)\s*\}/ matches: <<i, c>>, the { at i and the } at c
BlockWays(line) ==
    {w \in (0..Len(line)) \X (0..Len(line)) :
        /\ w[1] < Len(line)
        /\ At(line, w[1]) = "{"
        /\ w[2] < Len(line)
        /\ w[2] >= w[1] + 2
        /\ At(line, w[2]) = "}"
        /\ \A k \in (w[1] + 1)..(w[2] - 1) : At(line, k) # "}"}

\* line.match(/\{\s*([^}]+)\s*\}/)[1], of the leftmost match: the greedy \s* leaves
\* [^}]+ at least one character
BlockGroup(line) ==
    LET ways == BlockWays(line)
        w == CHOOSE v \in ways : \A u \in ways : v[1] <= u[1]
        ws == RunEnd(line, w[1] + 1, SpaceChars)
    IN Sub(line, IF ws >= w[2] THEN w[2] - 1 ELSE ws, w[2])

checkAutoProperties(line, lineNumber) ==
    IF /\ AutoPropertyTest(line)
       /\ BlockWays(line) # {}
       /\ ~Includes(BlockGroup(line), KwGet)
       /\ ~Includes(BlockGroup(line), KwSet)
    THEN <<Diagnostic(lineNumber, IndexOf(line, <<"{">>), lineNumber, IndexOf(line, <<"}">>) + 1,
                      "Auto-property must include at least one of \"get\" or \"set\".", "Error")>>
    ELSE <<>>

\* Numbers.  parseInt returns a Number, an IEEE 754 double: the integer the digits
\* denote, rounded to 53 significant bits (to nearest, ties to even).  A natural
\* number is written here as the sequence of its decimal digits 0..9, most
\* significant first and without leading zeros (<<>> is zero); a double with an
\* integer value as <<k, m>>, the value m * 2^k, with m below 2^53 and, when
\* k > 0, at least 2^52.

\* the value of a digit character
DigitValue(c) == CHOOSE v \in 0..9 : ToString(v) = c

\* the number without its leading zeros
RECURSIVE StripZeros(_)
StripZeros(n) == IF Len(n) > 0 /\ n[1] = 0 THEN StripZeros(Tail(n)) ELSE n

\* a < b
NatLess(a, b) ==
    \/ Len(a) < Len(b)
    \/ /\ Len(a) = Len(b)
       /\ \E k \in 1..Len(a) : a[k] < b[k] /\ \A j \in 1..(k - 1) : a[j] = b[j]

\* n div 2
Halve(n) ==
    StripZeros([k \in 1..Len(n) |-> ((IF k > 1 THEN n[k - 1] % 2 ELSE 0) * 10 + n[k]) \div 2])

\* n + 1
RECURSIVE Increment(_)
Increment(n) ==
    IF Len(n) = 0 THEN <<1>>
    ELSE IF n[Len(n)] < 9 THEN [n EXCEPT ![Len(n)] = n[Len(n)] + 1]
    ELSE Increment(SubSeq(n, 1, Len(n) - 1)) \o <<0>>

\* 2^52 and 2^53
TwoPow52 == <<4, 5, 0, 3, 5, 9, 9, 6, 2, 7, 3, 7, 0, 4, 9, 6>>

TwoPow53 == <<9, 0, 0, 7, 1, 9, 9, 2, 5, 4, 7, 4, 0, 9, 9, 2>>

\* Infinity: what a value of 2^1024 or more rounds to
Infinity == <<972, <<>>>>

\* the double nearest to m * 2^k + (guard / 2 + something below 1/2 iff sticky) * 2^k
RECURSIVE RoundToDouble(_, _, _, _)
RoundToDouble(m, k, guard, sticky) ==
    IF ~NatLess(m, TwoPow53)
    THEN RoundToDouble(Halve(m), k + 1, m[Len(m)] % 2, IF guard = 1 \/ sticky = 1 THEN 1 ELSE 0)
    ELSE LET odd == Len(m) > 0 /\ m[Len(m)] % 2 = 1
             up == guard = 1 /\ (sticky = 1 \/ odd)
             r == IF up THEN Increment(m) ELSE m
             d == IF r = TwoPow53 THEN <<k + 1, TwoPow52>> ELSE <<k, r>>
         IN IF d[1] >= 972 THEN Infinity ELSE d

\* x < y for two doubles
DoubleLess(x, y) == x[1] < y[1] \/ (x[1] = y[1] /\ NatLess(x[2], y[2]))

\* parseInt(ds) for a sequence of decimal digits (exact for the up to 20
\* significant digits that parseInt must honour)
ParseInt(ds) == RoundToDouble(StripZeros([k \in 1..Len(ds) |-> DigitValue(ds[k])]), 0, 0, 0)

\* the while loop over rangeRegex.exec(line), /(\d+)\.\.(\d+|_)/g: the matches
\* <<index, end of group 1, end of the match>>, the regex resuming at the end of
\* each match
RECURSIVE RangeExec(_, _)
RangeExec(line, lastIndex) ==
    LET hits == {i \in lastIndex..(Len(line) - 1) :
                    /\ At(line, i) \in Digits
                    /\ LET r == RunEnd(line, i, Digits)
                       IN /\ OccursAt(line, DotDot, r)
                          /\ r + 2 < Len(line)
                          /\ At(line, r + 2) \in Digits \cup {"_"}}
    IN IF hits = {} THEN <<>>
       ELSE LET i == Min(hits)
                r == RunEnd(line, i, Digits)
                e == IF At(line, r + 2) = "_" THEN r + 3 ELSE RunEnd(line, r + 2, Digits)
            IN <<(<<i, r, e>>)>> \o RangeExec(line, e)

\* the diagnostics of the matches ms[k..]
RECURSIVE RangeDiagnostics(_, _, _, _)
RangeDiagnostics(line, lineNumber, ms, k) ==
    IF k > Len(ms) THEN <<>>
    ELSE LET m == ms[k]
             upper == Sub(line, m[2] + 2, m[3])
             bad == /\ upper # <<"_">>
                    /\ ~DoubleLess(ParseInt(Sub(line, m[1], m[2])), ParseInt(upper))
         IN (IF bad
             THEN <<Diagnostic(lineNumber, m[1], lineNumber, m[3],
                               "Range start must be less than range end.", "Error")>>
             ELSE <<>>) \o RangeDiagnostics(line, lineNumber, ms, k + 1)

checkRangeOperators(line, lineNumber) ==
    RangeDiagnostics(line, lineNumber, RangeExec(line, 0), 1)

\* /\bwith\s*\{/ .test(line)
WithTest(line) ==
    \E i \in 0..Len(line) :
        /\ WordBoundary(line, i)
        /\ OccursAt(line, KwWith, i)
        /\ LET j == RunEnd(line, i + 4, SpaceChars)
           IN j < Len(line) /\ At(line, j) = "{"

checkWithExpressions(line, lineNumber) ==
    IF WithTest(line) /\ (~Includes(line, <<"=">>) \/ StartsWith(Trim(line), KwWith))
    THEN <<Diagnostic(lineNumber, IndexOf(line, KwWith), lineNumber, IndexOf(line, KwWith) + 4,
                      "\"with\" expression must be used with an assignment or return statement.", "Warning")>>
    ELSE <<>>

checkGeneralSyntax(line, lineNumber) ==
    checkUnclosedStrings(line, lineNumber)
    \o checkInvalidIdentifiers(line, lineNumber)
    \o checkSemicolonUsage(line, lineNumber)
    \o checkStructSyntax(line, lineNumber)
    \o checkAutoProperties(line, lineNumber)
    \o checkRangeOperators(line, lineNumber)
    \o checkWithExpressions(line, lineNumber)

-----------------------------------------------------------------------------
(* checkMultiLineConstructs                                                 *)

\* a count that forgets to subtract the closing characters
RECURSIVE NetCountOpeningOnly(_, _, _, _)
NetCountOpeningOnly(lines, n, opening, closing) ==
    IF n = 0 THEN 0
    ELSE NetCountOpeningOnly(lines, n - 1, opening, closing) + CountChar(lines[n], opening)

\* the net count of opening minus closing characters over lines[1..n]
RECURSIVE NetCount(_, _, _, _)
NetCount(lines, n, opening, closing) ==
    IF n = 0 THEN 0
    ELSE NetCount(lines, n - 1, opening, closing)
         + CountChar(lines[n], opening) - CountChar(lines[n], closing)

\* Math.abs
Abs(n) == IF n < 0 THEN -n ELSE n

checkMultiLineConstructs(lines) ==
    LET braceCount == NetCount(lines, Len(lines), "{", "}")
        bracketCount == NetCount(lines, Len(lines), "[", "]")
        parenCount == NetCount(lines, Len(lines), "(", ")")
        lastLineIndex == Len(lines) - 1
        lastLength == Len(lines[lastLineIndex + 1])
        braces == IF braceCount > 0
                  THEN <<Diagnostic(lastLineIndex, 0, lastLineIndex, lastLength,
                                    ToString(braceCount) \o " unclosed brace(s). Missing closing brace '}'.", "Error")>>
                  ELSE IF braceCount < 0
                  THEN <<Diagnostic(lastLineIndex, 0, lastLineIndex, lastLength,
                                    ToString(Abs(braceCount)) \o " extra closing brace(s).", "Error")>>
                  ELSE <<>>
        brackets == IF bracketCount > 0
                    THEN <<Diagnostic(lastLineIndex, 0, lastLineIndex, lastLength,
                                      ToString(bracketCount) \o " unclosed bracket(s). Missing closing bracket ']'.", "Error")>>
                    ELSE <<>>
        parens == IF parenCount > 0
                  THEN <<Diagnostic(lastLineIndex, 0, lastLineIndex, lastLength,
                                    ToString(parenCount) \o " unclosed parenthesis(es). Missing closing parenthesis ')'.", "Error")>>
                  ELSE <<>>
    IN braces \o brackets \o parens

-----------------------------------------------------------------------------
(* updateDiagnostics: the scan                                              *)

\* the body of the for loop over the lines, for one line
LineDiagnostics(lines, lineIndex) ==
    LET line == lines[lineIndex + 1]
    IN checkPipelineOperators(line, lineIndex)
       \o checkMatchExpressions(line, lineIndex, lines)
       \o checkLinqQueries(line, lineIndex)
       \o checkOperatorOverloading(line, lineIndex)
       \o checkFunctionSyntax(line, lineIndex)
       \o checkBracesAndIndentation(line, lineIndex)
       \o checkGeneralSyntax(line, lineIndex)

\* the diagnostics array as the rules fill it for a document text, each range as
\* the four numbers the rule passes to the Range constructor
ScanText(documentText) ==
    LET lines == Split(documentText)
    IN Flatten([k \in 1..Len(lines) |-> LineDiagnostics(lines, k - 1)])
       \o checkMultiLineConstructs(lines)

-----------------------------------------------------------------------------
(* The Range constructor of the host (module 'vscode', not part of the       *)
(* repository).  Its documented behaviour: a negative line or character is   *)
(* rejected with an exception, and a range whose start is after its end is   *)
(* stored with the two swapped.  A host that does not validate (a plain      *)
(* record, as in a test double) stores the four numbers as given.  Which     *)
(* host runs is fixed for a run: strictRanges.                               *)

\* new vscode.Range(...) throws for the numbers of diagnostic d
RangeThrows(d) ==
    d.startLine < 0 \/ d.startColumn < 0 \/ d.endLine < 0 \/ d.endColumn < 0

\* the range a validating host stores for the numbers of diagnostic d
NormalizeRange(d) ==
    IF d.startLine > d.endLine \/ (d.startLine = d.endLine /\ d.startColumn > d.endColumn)
    THEN [d EXCEPT !.startLine = d.endLine, !.startColumn = d.endColumn,
                   !.endLine = d.startLine, !.endColumn = d.startColumn]
    ELSE d

\* the scan of a text aborts: a rule's Range constructor throws
ScanThrows(documentText, strict) ==
    strict /\ LET diagnostics == ScanText(documentText)
              IN \E k \in 1..Len(diagnostics) : RangeThrows(diagnostics[k])

\* the diagnostics array at line 242 when the scan completes
ScanResult(documentText, strict) ==
    LET diagnostics == ScanText(documentText)
    IN IF strict
       THEN [k \in 1..Len(diagnostics) |-> NormalizeRange(diagnostics[k])]
       ELSE diagnostics

-----------------------------------------------------------------------------
(* Documents, the diagnostic collection and the event handlers of activate()  *)

\* the documents of the workspace
Docs == {"a.csc", "b.csc", "notes.txt"}

\* document.languageId
languageId(d) == IF d = "notes.txt" THEN "plaintext" ELSE "cscript"

\* diagnosticProvider.timeout holds no armed timer
NoTimer == "none"

\* diagnosticCollection has no entry for a uri
NoEntry == [has |-> FALSE, diagnostics |-> <<>>]

\* a collection that keeps the entry an earlier scan stored
SetEntryKeepingFirst(old, diagnostics) ==
    IF old.has THEN old ELSE [has |-> TRUE, diagnostics |-> diagnostics]

\* a collection that appends to the entry instead of replacing it
SetEntryAppending(old, diagnostics) == [has |-> TRUE, diagnostics |-> old.diagnostics \o diagnostics]

\* the entry diagnosticCollection.set(uri, diagnostics) stores: it replaces the entry
SetEntry(old, diagnostics) == [has |-> TRUE, diagnostics |-> diagnostics]

\* no updateDiagnostics call yet
NotScanned == [outcome |-> "none", text |-> <<>>]

\* the contents the documents take: a clean line, an unclosed brace, and a blank
\* line indented with a tab and a space
EventTexts == {<<"x">>, <<"{">>, <<"\t", " ">>}

\* the contents document d takes (no handler reads a document that is not cscript)
TextsOf(d) == IF languageId(d) = "cscript" THEN EventTexts ELSE {<<"{">>}

\* CScriptDiagnosticProvider.updateDiagnostics(document) for document d
updateDiagnostics(d) ==
    IF ~enabled
    THEN /\ sink' = sink
         /\ scanned' = [scanned EXCEPT ![d] = [outcome |-> "skipped", text |-> text'[d]]]
    ELSE IF ScanThrows(text'[d], strictRanges)
    THEN /\ sink' = sink
         /\ scanned' = [scanned EXCEPT ![d] = [outcome |-> "threw", text |-> text'[d]]]
    ELSE /\ sink' = [sink EXCEPT ![d] = SetEntry(sink[d], ScanResult(text'[d], strictRanges))]
         /\ scanned' = [scanned EXCEPT ![d] = [outcome |-> "completed", text |-> text'[d]]]

\* onDidOpenTextDocument: document d is opened with content t
OpenDocument(d, t) ==
    /\ ~open[d]
    /\ open' = [open EXCEPT ![d] = TRUE]
    /\ text' = [text EXCEPT ![d] = t]
    /\ IF languageId(d) = "cscript"
       THEN updateDiagnostics(d)
       ELSE UNCHANGED <<sink, scanned>>
    /\ UNCHANGED <<timeout, timers, enabled, checkOnType, strictRanges>>
    /\ UNCHANGED runVars

\* a clearTimeout that cancels nothing
ClearNothing(armed, handle) == armed

\* clearTimeout(diagnosticProvider.timeout): the armed timers left. The handle names
\* the timer armed last; without a handle, or when its timer has fired, nothing is cancelled
ClearTimeout(armed, handle) ==
    IF handle = NoTimer THEN armed ELSE SubSeq(armed, 1, Len(armed) - 1)

\* a change handler that does not read diagnostics.checkOnType
ChangeDocumentUnconditionally(d, t) ==
    /\ open[d]
    /\ text' = [text EXCEPT ![d] = t]
    /\ IF languageId(d) = "cscript"
       THEN /\ timers' = Append(ClearTimeout(timers, timeout), d)
            /\ timeout' = d
       ELSE UNCHANGED <<timeout, timers>>
    /\ UNCHANGED <<open, sink, enabled, checkOnType, strictRanges, scanned>>
    /\ UNCHANGED runVars

\* onDidChangeTextDocument: the content of the open document d becomes t
ChangeDocument(d, t) ==
    /\ open[d]
    /\ text' = [text EXCEPT ![d] = t]
    /\ IF languageId(d) = "cscript" /\ checkOnType
       THEN /\ timers' = Append(ClearTimeout(timers, timeout), d)
            /\ timeout' = d
       ELSE UNCHANGED <<timeout, timers>>
    /\ UNCHANGED <<open, sink, enabled, checkOnType, strictRanges, scanned>>
    /\ UNCHANGED runVars

\* the callback of setTimeout(..., 500) runs
TimerFires ==
    /\ timers # <<>>
    /\ timers' = Tail(timers)
    /\ timeout' = IF Len(timers) = 1 THEN NoTimer ELSE timeout
    /\ text' = text
    /\ updateDiagnostics(Head(timers))
    /\ UNCHANGED <<open, enabled, checkOnType, strictRanges>>
    /\ UNCHANGED runVars

\* onDidCloseTextDocument: document d is closed
CloseDocument(d) ==
    /\ open[d]
    /\ open' = [open EXCEPT ![d] = FALSE]
    /\ IF languageId(d) = "cscript"
       THEN sink' = [sink EXCEPT ![d] = NoEntry]
       ELSE sink' = sink
    /\ scanned' = [scanned EXCEPT ![d] = NotScanned]
    /\ UNCHANGED <<text, timeout, timers, enabled, checkOnType, strictRanges>>
    /\ UNCHANGED runVars

\* the user changes cscript.diagnostics.enabled or cscript.diagnostics.checkOnType
ChangeConfiguration(e, c) ==
    /\ <<e, c>> # <<enabled, checkOnType>>
    /\ enabled' = e
    /\ checkOnType' = c
    /\ UNCHANGED <<open, text, sink, timeout, timers, strictRanges, scanned>>
    /\ UNCHANGED runVars

\* the documents after activate(): none is open yet, the collection is empty, no
\* timer is armed
InitDocuments ==
    /\ open = [d \in Docs |-> FALSE]
    /\ text = [d \in Docs |-> CHOOSE t \in TextsOf(d) : t = <<"x">> \/ languageId(d) # "cscript"]
    /\ sink = [d \in Docs |-> NoEntry]
    /\ timeout = NoTimer
    /\ timers = <<>>
    /\ enabled \in BOOLEAN
    /\ checkOnType \in BOOLEAN
    /\ strictRanges \in BOOLEAN
    /\ scanned = [d \in Docs |-> NotScanned]

\* the documents that can be transpiled and run
CscDocs == {d \in Docs : languageId(d) = "cscript"}

\* no command was sent to a terminal
NoCommand == [issued |-> FALSE, file |-> "missing", transpile |-> "idle"]

\* after activate(): no command has been used; with a workspace folder and no
\* output file
Init ==
    /\ InitDocuments
    /\ workspaceFolder = TRUE
    /\ outputFile = [d \in CscDocs |-> "missing"]
    /\ transpile = [d \in CscDocs |-> "idle"]
    /\ runTimer = [d \in CscDocs |-> FALSE]
    /\ terminal = [d \in CscDocs |-> NoCommand]

Next ==
    \/ \E d \in Docs : \E t \in TextsOf(d) : OpenDocument(d, t)
    \/ \E d \in Docs : \E t \in TextsOf(d) : ChangeDocument(d, t)
    \/ TimerFires
    \/ \E d \in Docs : CloseDocument(d)
    \/ \E e \in BOOLEAN, c \in BOOLEAN : ChangeConfiguration(e, c)

Spec == Init /\ [][Next]_vars

-----------------------------------------------------------------------------
(* One scan of one document: the document texts the scan is checked on.        *)

\* the longest document, in lines, built from BlockPool
MaxLines == 3

\* the longest document, in characters, built from BracketChars
MaxChars == 3

\* lines that exercise each rule, after src/test-syntax-errors.csc
RulePool == {
    <<>>,
    <<"x">>,
    <<"a", " ", "|", " ", "b">>,
    <<"a", " ", "|", ">", " ", "b">>,
    <<"a", " ", "|", "|", " ", "b">>,
    <<"a", " ", "|", ">">>,
    <<"v", " ", "m", "a", "t", "c", "h", " ", "{">>,
    <<"v", " ", "m", "a", "t", "c", "h", " ", "{", "}">>,
    <<"{">>,
    <<"}">>,
    <<"1", " ", "=", ">", " ", "x">>,
    <<" ", "=", ">", " ", "x">>,
    <<"(", ")", " ", "=", ">">>,
    <<"(", ")", " ", "=", ">", " ", ";">>,
    <<"\"", "a", "b">>,
    <<"'", "a", "\\", "'">>,
    <<Backtick, "a">>,
    <<"1", "2">>,
    <<"l", "e", "t", " ", "2", "b">>,
    <<"\t", " ", "x">>,
    <<"\t", " ">>,
    <<" ", "\t">>,
    <<" ", " ", "x">>,
    <<"\t", "x">>,
    <<"o", "p", "e", "r", "a", "t", "o", "r", " ", "@", "@", "(">>,
    <<"o", "p", "e", "r", "a", "t", "o", "r", " ", "+", "(">>,
    <<"o", "p", "e", "r", "a", "t", "o", "r", " ", "*", "*", "(">>,
    <<"s", "t", "r", "u", "c", "t", " ", "a", "b", " ", "{">>,
    <<"s", "t", "r", "u", "c", "t", " ", "A", "b", " ", "{">>,
    <<"1", "0", ".", ".", "5">>,
    <<"0", ".", ".", "1", "0">>,
    <<"1", "1", ".", ".", "_">>,
    <<"1", ".", ".", "2", " ", "5", ".", ".", "3">>,
    <<"9", "0", "0", "7", "1", "9", "9", "2", "5", "4", "7", "4", "0", "9", "9", "2", ".", ".",
      "9", "0", "0", "7", "1", "9", "9", "2", "5", "4", "7", "4", "0", "9", "9", "3">>,
    <<"f", "r", "o", "m", " ", "2", "b", " ", "i", "n", " ", "c">>,
    <<"f", "r", "o", "m", " ", "u", " ", "i", "n", " ", "u", "s", " ">>,
    <<"f", "u", "n", "c", "t", "i", "o", "n", " ", "1", "f", "(">>,
    <<"f", "(", "a", ",", " ", "b", ";">>,
    <<"a", "[", "1">>,
    <<"{", " ", "g", "e", "t", ";", " ", "s", "e", "t", ";", " ", "}">>,
    <<"}", " ", " ", "{", "x", "}", "{", "g", "e", "t", "}">>,
    <<"w", "i", "t", "h", " ", "{">>,
    <<"a", " ", "=", " ", "b", " ", "w", "i", "t", "h", " ", "{">>,
    <<"a", ":", " ", "b", ";">>}

\* lines that open and close blocks
BlockPool == {
    <<"x">>,
    <<"{">>,
    <<"}">>,
    <<"v", " ", "m", "a", "t", "c", "h", " ", "{">>,
    <<"v", " ", "m", "a", "t", "c", "h", " ", "{", "}">>,
    <<"v", " ", "m", "a", "t", "c", "h", " ", "{", " ", "}", "}">>}

\* the characters the bracket balance counts, and the line break
BracketChars == {"{", "}", "[", "]", "(", ")", "\n"}

\* the characters the unclosed-literal scan distinguishes, and the line break
QuoteChars == {"\"", "'", Backtick, "\\", "a", "\n"}

\* second lines for the lines of RulePool
PairPool == {
    <<"x">>,
    <<"}">>,
    <<"\t", "x">>,
    <<Backtick, "a">>,
    <<"1", "0", ".", ".", "5">>}

\* the documents of one line of RulePool, of a line of RulePool followed by a line
\* of PairPool, the documents of up to MaxLines lines of BlockPool, and the texts
\* of up to MaxChars characters of BracketChars and of QuoteChars
ScanTexts ==
    {Join(<<l>>) : l \in RulePool}
    \cup {Join(<<l[1], l[2]>>) : l \in RulePool \X PairPool}
    \cup {Join(ls) : ls \in UNION {[1..n -> BlockPool] : n \in 1..MaxLines}}
    \cup UNION {[1..n -> BracketChars] : n \in 0..MaxChars}
    \cup UNION {[1..n -> QuoteChars] : n \in 0..MaxChars}

\* the document scanned by the one-scan specification
ScanDoc == "a.csc"

\* document a.csc is opened with content t, as the first event after activate()
ScanDocument(t) ==
    /\ \A d \in Docs : ~open[d] /\ scanned[d] = NotScanned
    /\ OpenDocument(ScanDoc, t)

InitScan == Init /\ checkOnType

NextScan == \E t \in ScanTexts : ScanDocument(t)

SpecScan == InitScan /\ [][NextScan]_vars

\* the events with both settings left at true: diagnostics enabled, checkOnType true
InitOn == Init /\ enabled /\ checkOnType

NextOn ==
    \/ \E d \in Docs : \E t \in TextsOf(d) : OpenDocument(d, t)
    \/ \E d \in Docs : \E t \in TextsOf(d) : ChangeDocument(d, t)
    \/ TimerFires
    \/ \E d \in Docs : CloseDocument(d)

SpecOn == InitOn /\ [][NextOn]_vars

-----------------------------------------------------------------------------
(* The claims.                                                               *)

\* the entry a completed scan of text t leaves in the collection
Published(t) == [has |-> TRUE, diagnostics |-> ScanResult(t, strictRanges)]

\* C1: whenever updateDiagnostics has completed for a document with diagnostics
\* enabled, the collection's entry for the document is exactly the list computed
\* from the text that scan read: nothing an earlier scan published remains beside it.
C1_FullReplace ==
    \A d \in Docs : scanned[d].outcome = "completed" => sink[d] = Published(scanned[d].text)

\* C1 witness: a scan of the clean line has completed for an open document and left
\* it the empty list, while another document holds the diagnostic of its own scan.
C1_Witness ==
    /\ open["a.csc"]
    /\ scanned["a.csc"] = [outcome |-> "completed", text |-> <<"x">>]
    /\ sink["a.csc"] = [has |-> TRUE, diagnostics |-> <<>>]
    /\ scanned["b.csc"].outcome = "completed"
    /\ Len(sink["b.csc"].diagnostics) = 1

\* C2: after a close event for a cscript document the collection holds no
\* diagnostics for it until it is opened again, for every interleaving of open,
\* change, timer and close events.
C2_ClosedHasNoDiagnostics ==
    \A d \in Docs : languageId(d) = "cscript" /\ ~open[d] => sink[d].diagnostics = <<>>

\* C3: with both settings true, once no timer is pending every open cscript
\* document has the entry of the scan of its latest text (stated for the texts on
\* which the scan does not abort): a change to one document does not cancel the
\* scan owed to another.
C3_ScansIndependent ==
    timeout = NoTimer =>
        \A d \in Docs :
            languageId(d) = "cscript" /\ open[d] /\ ~ScanThrows(text[d], strictRanges)
                => sink[d] = Published(text[d])

\* C4: once updateDiagnostics has run for a document's text, the collection holds
\* no diagnostic for the document that the scan of that text does not produce,
\* under every configuration history (stated for the texts on which the scan does
\* not abort).
C4_NoStaleDiagnostics ==
    \A d \in Docs :
        scanned[d].outcome # "none" /\ ~ScanThrows(scanned[d].text, strictRanges)
            => \A k \in 1..Len(sink[d].diagnostics) :
                   \E j \in 1..Len(ScanResult(scanned[d].text, strictRanges)) :
                       sink[d].diagnostics[k] = ScanResult(scanned[d].text, strictRanges)[j]

\* C5: with diagnostics disabled, a scan leaves the document with the empty
\* diagnostic list, whatever its text.
C5_DisabledYieldsEmpty ==
    \A d \in Docs : scanned[d].outcome = "skipped" => sink[d].diagnostics = <<>>

\* a diagnostic's range lies inside the document of the given lines
RangeInDocument(diag, lines) ==
    /\ 0 <= diag.startLine
    /\ diag.startLine <= diag.endLine
    /\ diag.endLine < Len(lines)
    /\ 0 <= diag.startColumn
    /\ diag.startLine = diag.endLine => diag.startColumn <= diag.endColumn
    /\ diag.startColumn <= Len(lines[diag.startLine + 1])
    /\ diag.endColumn <= Len(lines[diag.endLine + 1])

C7_ScanDelivers ==
    enabled /\ scanned[ScanDoc].outcome # "none" =>
        scanned[ScanDoc].outcome = "completed" /\ sink[ScanDoc].has

LastLineLength(t) == Len(t) - Max({0} \cup {i \in 1..Len(t) : t[i] = "\n"})

\* an Error spanning the last line of text t
LastLineError(t, msg) ==
    [startLine |-> CountChar(t, "\n"), startColumn |-> 0,
     endLine |-> CountChar(t, "\n"), endColumn |-> LastLineLength(t),
     message |-> msg, severity |-> "Error", source |-> "cscript"]

\* the messages the bracket balance rule can give on a text of n characters
BalanceMessages(n) ==
    {ToString(k) \o " unclosed brace(s). Missing closing brace '}'." : k \in 1..n}
    \cup {ToString(k) \o " extra closing brace(s)." : k \in 1..n}
    \cup {ToString(k) \o " unclosed bracket(s). Missing closing bracket ']'." : k \in 1..n}
    \cup {ToString(k) \o " unclosed parenthesis(es). Missing closing parenthesis ')'." : k \in 1..n}

\* what the claim says the bracket balance rule reports for text t, from the three
\* net counts over the whole text
BalanceExpected(t) ==
    LET braces == CountChar(t, "{") - CountChar(t, "}")
        brackets == CountChar(t, "[") - CountChar(t, "]")
        parens == CountChar(t, "(") - CountChar(t, ")")
    IN (IF braces > 0
        THEN <<LastLineError(t, ToString(braces) \o " unclosed brace(s). Missing closing brace '}'.")>>
        ELSE IF braces < 0
        THEN <<LastLineError(t, ToString(0 - braces) \o " extra closing brace(s).")>>
        ELSE <<>>)
       \o (IF brackets > 0
           THEN <<LastLineError(t, ToString(brackets) \o " unclosed bracket(s). Missing closing bracket ']'.")>>
           ELSE <<>>)
       \o (IF parens > 0
           THEN <<LastLineError(t, ToString(parens) \o " unclosed parenthesis(es). Missing closing parenthesis ')'.")>>
           ELSE <<>>)

\* the diagnostics of the bracket balance rule among those published for ScanDoc
BalancePublished ==
    LET IsBalance(diag) == diag.message \in BalanceMessages(Len(scanned[ScanDoc].text))
    IN SelectSeq(sink[ScanDoc].diagnostics, IsBalance)

\* C9: the document-global bracket rule reports exactly from the three net counts
\* over the whole document: for braces one Error 'N unclosed brace(s)' when the net
\* count is N > 0 and one Error 'N extra closing brace(s)' when it is -N < 0; for
\* brackets and for parentheses one Error 'N unclosed ...' only when the net count
\* is N > 0; nothing when all three are zero; each on the document's last line.
C9_BalanceFromNetCounts ==
    scanned[ScanDoc].outcome = "completed" => BalancePublished = BalanceExpected(scanned[ScanDoc].text)

\* C9 witness: a completed scan of a document with two net unclosed braces, one
\* extra closing bracket and balanced parentheses published exactly the brace Error.
C9_Witness ==
    /\ scanned[ScanDoc] = [outcome |-> "completed", text |-> <<"{", "{", "]">>]
    /\ BalancePublished = <<LastLineError(scanned[ScanDoc].text, "2 unclosed brace(s). Missing closing brace '}'.")>>

\* the running count of { minus } over lines n..i (0-based) is zero
RunningCountZero(lines, n, i) ==
    LET part == Flatten(SubSeq(lines, n + 1, i + 1))
    IN CountChar(part, "{") = CountChar(part, "}")

\* the places of the 'Match expression is not properly closed' Errors published
\* for ScanDoc on line n
MatchErrorsOn(n) ==
    {k \in 1..Len(sink[ScanDoc].diagnostics) :
        /\ sink[ScanDoc].diagnostics[k].message = "Match expression is not properly closed with }"
        /\ sink[ScanDoc].diagnostics[k].severity = "Error"
        /\ sink[ScanDoc].diagnostics[k].startLine = n}

\* C10: for every line containing `match {`, the match rule emits the 'Match
\* expression is not properly closed' Error for that line if and only if the
\* running count of { minus }, accumulated from that line to the end of the
\* document, never returns to zero; a match block whose braces are closed, on the
\* originating line or on a later one, is not reported.
C10_MatchClosure ==
    scanned[ScanDoc].outcome = "completed" =>
        LET lines == Split(scanned[ScanDoc].text)
        IN \A n \in 0..(Len(lines) - 1) :
               MatchKeywordTest(lines[n + 1]) =>
                   IF \E i \in n..(Len(lines) - 1) : RunningCountZero(lines, n, i)
                   THEN MatchErrorsOn(n) = {}
                   ELSE Cardinality(MatchErrorsOn(n)) = 1

\* the lines of the document the last scan of ScanDoc read
ScannedLines == Split(scanned[ScanDoc].text)

\* the places of the diagnostics published for ScanDoc that start on line n with
\* message msg and severity sev
PublishedOn(n, msg, sev) ==
    {k \in 1..Len(sink[ScanDoc].diagnostics) :
        /\ sink[ScanDoc].diagnostics[k].message = msg
        /\ sink[ScanDoc].diagnostics[k].severity = sev
        /\ sink[ScanDoc].diagnostics[k].startLine = n}

\* the text before the first => of the line is empty or only whitespace
EmptyArmPattern(line) ==
    /\ Includes(line, Arrow)
    /\ Trim(Sub(line, 0, IndexOf(line, Arrow))) = <<>>

\* C11: for any line of the shape `<pattern> => <expr>` in which the text before
\* `=>` is empty or only whitespace, the match rule emits the Error 'Match arm
\* must have a pattern before "=>"' for that line, inside a match block or not.
C11_EmptyPatternReported ==
    scanned[ScanDoc].outcome = "completed" =>
        \A n \in 0..(Len(ScannedLines) - 1) :
            EmptyArmPattern(ScannedLines[n + 1])
                => PublishedOn(n, "Match arm must have a pattern before \"=>\"", "Error") # {}

\* the tokens <token> of the declarations `operator <token>(` of the line: after
\* the word operator and whitespace, the characters up to optional whitespace and (
DeclaredOperators(line) ==
    {Sub(line, w[1], w[2]) : w \in
        {v \in (0..Len(line)) \X (0..Len(line)) :
            /\ v[1] < v[2]
            /\ \E i \in 0..Len(line) :
                   /\ WordBoundary(line, i)
                   /\ OccursAt(line, KwOperator, i)
                   /\ v[1] > i + 8
                   /\ v[1] = RunEnd(line, i + 8, SpaceChars)
            /\ \A p \in v[1]..(v[2] - 1) : At(line, p) \notin SpaceChars \cup {"("}
            /\ RunEnd(line, v[2], SpaceChars) < Len(line)
            /\ At(line, RunEnd(line, v[2], SpaceChars)) = "("}}

\* the Error of the operator rule for token tok
InvalidOperatorMessage(tok) ==
    "Invalid operator \"" \o StrOf(tok) \o "\" for overloading. Valid operators: "
        \o "+, -, *, /, %, ==, !=, <, >, <=, >=, &&, ||, &, |, ^, ~, <<, >>, +=, -=, *=, /=, %="

\* the operators that may be overloaded, as the claim lists them
Whitelist ==
    {<<"+">>, <<"-">>, <<"*">>, <<"/">>, <<"%">>, <<"=", "=">>, <<"!", "=">>, <<"<">>, <<">">>,
     <<"<", "=">>, <<">", "=">>, <<"&", "&">>, <<"|", "|">>, <<"&">>, <<"|">>, <<"^">>, <<"~">>,
     <<"<", "<">>, <<">", ">">>, <<"+", "=">>, <<"-", "=">>, <<"*", "=">>, <<"/", "=">>, <<"%", "=">>}

\* C12: for every line declaring `operator <token>(`, the operator rule emits an
\* Error listing the permitted operators exactly when <token> is not one of the 24
\* whitelisted operators, for any token, also one made of characters outside the
\* operator alphabet such as @@; a whitelisted token yields no diagnostic.
C12_OperatorWhitelist ==
    scanned[ScanDoc].outcome = "completed" =>
        \A n \in 0..(Len(ScannedLines) - 1) :
            \A tok \in DeclaredOperators(ScannedLines[n + 1]) :
                (PublishedOn(n, InvalidOperatorMessage(tok), "Error") # {}) <=> tok \notin Whitelist

\* the line has an arrow with no body expression after it: after its last =>
\* there is only whitespace, or only a ; among whitespace
ArrowWithoutBody(line) ==
    /\ Includes(line, Arrow)
    /\ LET rest == Trim(Sub(line, LastIndexOf(line, Arrow) + 2, Len(line)))
       IN rest = <<>> \/ rest = <<";">>

\* C13: a line with an arrow => that has no body expression after it on that line
\* yields exactly one Warning 'Arrow function body is missing.', both when the line
\* ends right after the arrow (optionally followed by whitespace) and when only a
\* ; follows the arrow.
C13_ArrowBodyMissing ==
    scanned[ScanDoc].outcome = "completed" =>
        \A n \in 0..(Len(ScannedLines) - 1) :
            ArrowWithoutBody(ScannedLines[n + 1])
                => Cardinality(PublishedOn(n, "Arrow function body is missing.", "Warning")) = 1

\* the columns of the | characters of the line not immediately followed by >
LonePipes(line) ==
    {p \in 0..(Len(line) - 1) :
        At(line, p) = "|" /\ (p + 1 = Len(line) \/ At(line, p + 1) # ">")}

\* C14: for every line, the pipeline rule emits one 'Invalid pipeline operator'
\* Error for each | character that is not immediately followed by >, with range
\* the two columns starting at that |, and no such Error for a line in which every
\* | is immediately followed by >.
C14_OneErrorPerLonePipe ==
    scanned[ScanDoc].outcome = "completed" =>
        \A n \in 0..(Len(ScannedLines) - 1) :
            LET errors == PublishedOn(n, "Invalid pipeline operator. Use \"|>\" for pipeline operations.", "Error")
            IN /\ Cardinality(errors) = Cardinality(LonePipes(ScannedLines[n + 1]))
               /\ \A p \in LonePipes(ScannedLines[n + 1]) :
                      \E k \in errors :
                          /\ sink[ScanDoc].diagnostics[k].startColumn = p
                          /\ sink[ScanDoc].diagnostics[k].endLine = n
                          /\ sink[ScanDoc].diagnostics[k].endColumn = p + 2

\* the range tokens N..M and N.._ of the line, as <<start column, end of N, end
\* of the token>>, N and M whole digit sequences
RangeTokens(line) ==
    {<<i, RunEnd(line, i, Digits),
       IF At(line, RunEnd(line, i, Digits) + 2) = "_"
       THEN RunEnd(line, i, Digits) + 3
       ELSE RunEnd(line, RunEnd(line, i, Digits) + 2, Digits)>> :
        i \in {c \in 0..(Len(line) - 1) :
                  /\ At(line, c) \in Digits
                  /\ c > 0 => At(line, c - 1) \notin Digits
                  /\ OccursAt(line, DotDot, RunEnd(line, c, Digits))
                  /\ RunEnd(line, c, Digits) + 2 < Len(line)
                  /\ At(line, RunEnd(line, c, Digits) + 2) \in Digits \cup {"_"}}}

\* the integer a digit sequence denotes, exactly
Exact(ds) == StripZeros([k \in 1..Len(ds) |-> DigitValue(ds[k])])

\* C15: for every range token N..M on a line the range rule emits no diagnostic
\* for the token when N < M and exactly one Error 'Range start must be less than
\* range end.' spanning exactly that token when N >= M; a token N.._ never yields
\* one; this holds for every token of the line.
C15_RangeOrder ==
    scanned[ScanDoc].outcome = "completed" =>
        \A n \in 0..(Len(ScannedLines) - 1) :
            \A tok \in RangeTokens(ScannedLines[n + 1]) :
                LET line == ScannedLines[n + 1]
                    errors == {k \in PublishedOn(n, "Range start must be less than range end.", "Error") :
                                  /\ sink[ScanDoc].diagnostics[k].startColumn = tok[1]
                                  /\ sink[ScanDoc].diagnostics[k].endLine = n
                                  /\ sink[ScanDoc].diagnostics[k].endColumn = tok[3]}
                    ordered == \/ At(line, tok[2] + 2) = "_"
                               \/ NatLess(Exact(Sub(line, tok[1], tok[2])), Exact(Sub(line, tok[2] + 2, tok[3])))
                IN Cardinality(errors) = IF ordered THEN 0 ELSE 1

\* lines of well-formed constructs, after the good-syntax section of
\* src/test-syntax-errors.csc: a pipeline, the opening and the closing line of a
\* match block, a PascalCase struct, and ranges N..M with N < M and N.._
WellFormedLines == {
    <<"a", " ", "|", ">", " ", "b">>,
    <<"v", " ", "m", "a", "t", "c", "h", " ", "{">>,
    <<"}">>,
    <<"s", "t", "r", "u", "c", "t", " ", "A", "b", " ", "{">>,
    <<"0", ".", ".", "1", "0">>,
    <<"1", "1", ".", ".", "_">>}

\* the braces of the lines are properly nested: every block that is opened is closed
ProperlyNested(lines) ==
    /\ \A i \in 1..Len(lines) :
           CountChar(Flatten(SubSeq(lines, 1, i)), "{") >= CountChar(Flatten(SubSeq(lines, 1, i)), "}")
    /\ CountChar(Flatten(lines), "{") = CountChar(Flatten(lines), "}")

\* C16: well-formed constructs cause no Error-severity diagnostic on their lines
\* from any rule of the scan: |> pipelines, a match block closed by }, a PascalCase
\* struct, and ranges N..M with N < M or N.._ such as 0..10 and 11.._ .
C16_WellFormedNoErrors ==
    /\ scanned[ScanDoc].outcome = "completed"
    /\ \A n \in 1..Len(ScannedLines) : ScannedLines[n] \in WellFormedLines
    /\ ProperlyNested(ScannedLines)
    => \A k \in 1..Len(sink[ScanDoc].diagnostics) : sink[ScanDoc].diagnostics[k].severity # "Error"

\* the character at column i is skipped: it follows an odd number of backslashes
Skipped(line, i) ==
    LET run == Max({r \in 0..i : \A p \in (i - r)..(i - 1) : At(line, p) = "\\"})
    IN run % 2 = 1

\* the delimiters of the line that are not skipped, in order
Delimiters(line) ==
    LET IsDelimiter(i) == At(line, i) \in {"\"", "'", Backtick} /\ ~Skipped(line, i)
        cols == {i \in 0..(Len(line) - 1) : IsDelimiter(i)}
        Nth(k) == CHOOSE c \in cols : Cardinality({d \in cols : d < c}) = k - 1
    IN [k \in 1..Cardinality(cols) |-> At(line, Nth(k))]

\* the delimiter of the literal that is open after the delimiters qs, "" when none
\* is: a delimiter outside a literal opens one, only the same delimiter closes it
RECURSIVE OpenLiteral(_, _)
OpenLiteral(qs, opened) ==
    IF Len(qs) = 0 THEN opened
    ELSE IF opened = "" THEN OpenLiteral(Tail(qs), Head(qs))
    ELSE IF Head(qs) = opened THEN OpenLiteral(Tail(qs), "")
    ELSE OpenLiteral(Tail(qs), opened)

\* C17: the unclosed-literal rule is a per-line state machine: a backslash skips
\* the next character, an unescaped ' " or backtick outside a literal opens one and
\* only the same unescaped delimiter closes it.  A line gets exactly one Error
\* ('Unclosed template literal.' when the open delimiter is a backtick, otherwise
\* 'Unclosed string.') if and only if the scan of that line alone ends inside a
\* literal: the result of a line does not depend on any other line.
C17_UnclosedLiteralPerLine ==
    scanned[ScanDoc].outcome = "completed" =>
        \A n \in 0..(Len(ScannedLines) - 1) :
            LET opened == OpenLiteral(Delimiters(ScannedLines[n + 1]), "")
                strings == Cardinality(PublishedOn(n, "Unclosed string.", "Error"))
                templates == Cardinality(PublishedOn(n, "Unclosed template literal.", "Error"))
            IN /\ strings = IF opened \in {"\"", "'"} THEN 1 ELSE 0
               /\ templates = IF opened = Backtick THEN 1 ELSE 0

\* C17 witness: in a completed scan of two lines, the first, an escaped quote inside
\* an open string, got 'Unclosed string.' and the second, an open template literal,
\* got 'Unclosed template literal.'.
C17_Witness ==
    /\ scanned[ScanDoc].outcome = "completed"
    /\ ScannedLines = <<(<<"'", "a", "\\", "'">>), (<<Backtick, "a">>)>>
    /\ Cardinality(PublishedOn(0, "Unclosed string.", "Error")) = 1
    /\ Cardinality(PublishedOn(1, "Unclosed template literal.", "Error")) = 1

\* C18: a document whose indented lines do not all use the same indentation
\* character, some lines beginning with a tab and others with a space, yields at
\* least one 'Mixed tabs and spaces for indentation' Warning.
C18_MixedIndentationAcrossLines ==
    /\ scanned[ScanDoc].outcome = "completed"
    /\ \E n \in 1..Len(ScannedLines) : StartsWith(ScannedLines[n], <<"\t">>)
    /\ \E n \in 1..Len(ScannedLines) : StartsWith(ScannedLines[n], <<" ">>)
    => \E k \in 1..Len(sink[ScanDoc].diagnostics) :
           /\ sink[ScanDoc].diagnostics[k].message
                  = "Mixed tabs and spaces for indentation. Choose either tabs or spaces consistently."
           /\ sink[ScanDoc].diagnostics[k].severity = "Warning"

\* C19: debounce.  In every reachable state at most one debounced scan is
\* pending; each change event on a cscript document with checkOnType true cancels
\* the pending one and schedules a new one, so that after a burst of changes to a
\* document the one timer that fires runs one scan of the document, reading its
\* latest text, and leaves no other scan pending.
C19_Debounce ==
    /\ Len(timers) <= 1
    /\ [][/\ Len(timers') <= 1
          /\ \A d \in Docs :
                 (/\ languageId(d) = "cscript"
                  /\ checkOnType
                  /\ open[d]
                  /\ text'[d] # text[d])
                     => timers' = <<d>>
          /\ Len(timers') < Len(timers)
                 => /\ timers' = <<>>
                    /\ scanned'[Head(timers)].outcome # "none"
                    /\ scanned'[Head(timers)].text = text[Head(timers)]]_vars

\* C19 witness: after a change to the open document a.csc one scan is pending for
\* it and the text it will read is not the text of the last scan.
C19_Witness ==
    /\ timers = <<"a.csc">>
    /\ open["a.csc"]
    /\ scanned["a.csc"].outcome = "completed"
    /\ scanned["a.csc"].text # text["a.csc"]

-----------------------------------------------------------------------------
(* The commands cscript.transpile and cscript.run.                            *)
(*                                                                            *)
(* The content of the output file of a document is "missing", "older" (the    *)
(* complete output of an earlier transpilation), "partial" (the shell has     *)
(* opened the redirection > outputFile and the transpiler has not finished    *)
(* writing) or "current" (the complete output of the latest transpilation).   *)
(* The child process started by exec is "spawned" until the shell opens the   *)
(* redirection, then "running", then "succeeded" or "failed".  One            *)
(* transpilation and one run per document are followed at a time.             *)

\* a transpilation of d is under way
InFlight(d) == transpile[d] \in {"spawned", "running"}

\* transpileFile(document): without a workspace folder it returns after the error
\* message; otherwise exec starts the child process and transpileFile returns
\* without waiting for the callback
transpileFile(d) ==
    /\ outputFile' = [outputFile EXCEPT ![d] = IF @ = "current" THEN "older" ELSE @]
    /\ transpile' = [transpile EXCEPT ![d] = IF workspaceFolder THEN "spawned" ELSE "idle"]

\* the command cscript.transpile, or a save with transpiler.autoTranspile, on d
TranspileCommand(d) ==
    /\ ~InFlight(d)
    /\ ~runTimer[d]
    /\ transpileFile(d)
    /\ UNCHANGED <<workspaceFolder, runTimer, terminal>>
    /\ UNCHANGED documentVars

\* runFile(document): await transpileFile(document), then setTimeout(..., 2000)
RunFile(d) ==
    /\ ~InFlight(d)
    /\ ~runTimer[d]
    /\ transpileFile(d)
    /\ runTimer' = [runTimer EXCEPT ![d] = TRUE]
    /\ terminal' = [terminal EXCEPT ![d] = NoCommand]
    /\ UNCHANGED workspaceFolder
    /\ UNCHANGED documentVars

\* the shell started by exec opens the redirection: the output file is truncated
TranspilerStarts(d) ==
    /\ transpile[d] = "spawned"
    /\ transpile' = [transpile EXCEPT ![d] = "running"]
    /\ outputFile' = [outputFile EXCEPT ![d] = "partial"]
    /\ UNCHANGED <<workspaceFolder, runTimer, terminal>>
    /\ UNCHANGED documentVars

\* the callback of exec runs without error: the output is complete
TranspileSucceeds(d) ==
    /\ transpile[d] = "running"
    /\ transpile' = [transpile EXCEPT ![d] = "succeeded"]
    /\ outputFile' = [outputFile EXCEPT ![d] = "current"]
    /\ UNCHANGED <<workspaceFolder, runTimer, terminal>>
    /\ UNCHANGED documentVars

\* the callback of exec runs with an error: the shell could not start, or the
\* transpiler exited with an error and left what it had written
TranspileFails(d) ==
    /\ InFlight(d)
    /\ transpile' = [transpile EXCEPT ![d] = "failed"]
    /\ UNCHANGED <<workspaceFolder, outputFile, runTimer, terminal>>
    /\ UNCHANGED documentVars

\* the callback of runFile's setTimeout(..., 2000) runs
RunTimerFires(d) ==
    /\ runTimer[d]
    /\ runTimer' = [runTimer EXCEPT ![d] = FALSE]
    /\ IF workspaceFolder /\ outputFile[d] # "missing"
       THEN terminal' = [terminal EXCEPT ![d] =
                            [issued |-> TRUE, file |-> outputFile[d], transpile |-> transpile[d]]]
       ELSE terminal' = terminal
    /\ UNCHANGED <<workspaceFolder, outputFile, transpile>>
    /\ UNCHANGED documentVars

\* after activate(), with or without a workspace folder, the output files of
\* earlier sessions present or not
InitRun ==
    /\ InitDocuments
    /\ enabled /\ checkOnType /\ strictRanges
    /\ workspaceFolder \in BOOLEAN
    /\ outputFile \in [CscDocs -> {"missing", "older"}]
    /\ transpile = [d \in CscDocs |-> "idle"]
    /\ runTimer = [d \in CscDocs |-> FALSE]
    /\ terminal = [d \in CscDocs |-> NoCommand]

NextRun ==
    \/ \E d \in CscDocs : TranspileCommand(d)
    \/ \E d \in CscDocs : RunFile(d)
    \/ \E d \in CscDocs : TranspilerStarts(d)
    \/ \E d \in CscDocs : TranspileSucceeds(d)
    \/ \E d \in CscDocs : TranspileFails(d)
    \/ \E d \in CscDocs : RunTimerFires(d)

SpecRun == InitRun /\ [][NextRun]_vars

\* C21: runFile transpiles first and runs second: the terminal command that runs
\* the output file is issued only after the transpilation started by that same
\* runFile call has completed successfully, so the file that is run is the output
\* of that transpilation, never a missing or older one; when the transpilation
\* fails, nothing is run.
C21_RunsAfterTranspile ==
    \A d \in CscDocs :
        terminal[d].issued => terminal[d].transpile = "succeeded" /\ terminal[d].file = "current"

=============================================================================
